---- MODULE Spec2Model ----
(***************************************************************************)
(* Lead lifecycle of the CRM: the Lead and StatusHistory tables, and the   *)
(* request handlers that write them (create, change status, edit, claim,   *)
(* unclaim, automation sweep).  Every handler is a sequence of store       *)
(* round trips; each round trip is one step, so requests interleave at     *)
(* exactly the places where the code awaits the store.                     *)
(***************************************************************************)
EXTENDS Integers, Sequences, FiniteSets, TLC

VARIABLES
    leads,      \* Lead table: lead id -> row, for the leads that exist
    history,    \* StatusHistory table: lead id -> rows in creation order
    now,        \* wall clock (Date.now()), in milliseconds
    ticks,      \* how often the clock has advanced
    req,        \* the requests in flight: slot -> handler frame
    tasks       \* Task table: task id -> row, for the tasks that exist

vars == <<leads, history, now, ticks, req, tasks>>

----------------------------------------------------------------------------
(* Bounds of the model *)

MaxHist == 2        \* StatusHistory rows per lead, overlapping requests
MaxHistSeq == 2     \* StatusHistory rows per lead, one request at a time
MaxTicks == 1       \* clock advances
MaxHistSweep == 3   \* StatusHistory rows per lead, sweep runs over two leads
MaxSweepTicks == 2  \* clock advances, sweep runs over two leads
MaxTaskTicks == 1   \* clock advances, task requests

(* Encoding of SQL NULL / JS null *)
Null == "null"
NoTime == -1

----------------------------------------------------------------------------
(* Users, roles, statuses *)

Users == {"a1", "o1", "o2", "g1"}

RoleOf(u) ==
    CASE u = "a1" -> "admin"
      [] u \in {"o1", "o2"} -> "outreach"
      [] u = "g1" -> "lead_gen"
      [] OTHER -> "none"

NoSession == "anonymous"
Actors == Users \cup {NoSession}

LEAD_STATUSES ==
    {"new", "requested", "texted", "replied", "meeting_booked",
     "first_followup", "second_followup", "junk", "closed", "commented"}

LeadIds == {"L1"}
Slots == {1, 2}

Day == 24 * 60 * 60 * 1000
FOLLOWUP_2_TO_JUNK_MS == 4 * Day

(* Status values a client sends; "bogus" is outside the enumeration. *)
StatusInputs == {"texted", "second_followup"}
SeqStatusInputs ==
    {"texted", "first_followup", "second_followup", "replied", "closed", "bogus"}
TickSteps == {FOLLOWUP_2_TO_JUNK_MS}

----------------------------------------------------------------------------
(* Rows *)

NewLead(assignee, t) ==
    [status |-> "new", assignedToId |-> assignee, createdAt |-> t,
     textedAt |-> NoTime, firstFollowupAt |-> NoTime,
     secondFollowupAt |-> NoTime, repliedAt |-> NoTime]

NoLead == NewLead(Null, NoTime)

HistoryRow(uid, old, new, reason) ==
    [userId |-> uid, oldStatus |-> old, newStatus |-> new, reason |-> reason,
     createdAt |-> now]

Undefined == "undefined"
Absent == [kind |-> "absent", v |-> 0]

(* An omitted key of a date filter, and a where clause with no key. *)
NoRange == [gte |-> NoTime, lte |-> NoTime]
NoWhere ==
    [assignedToId |-> Undefined, status |-> Undefined, dueAt |-> NoRange,
     createdAt |-> NoRange]

Idle ==
    [op |-> "none", pc |-> "idle", actor |-> NoSession, leadId |-> Null,
     newStatus |-> Null, assignedToId |-> Null, lead |-> NoLead,
     batch |-> <<>>, transitioned |-> 0, search |-> Null, found |-> {}, sent |-> Undefined,
     fourDaysAgo |-> NoTime, taskId |-> Null, createdAt |-> NoTime,
     dueAt |-> NoTime, createdAtStr |-> Absent, dueAtStr |-> Absent,
     at |-> NoTime, where |-> NoWhere, createdLeads |-> <<>>,
     skippedLeads |-> <<>>, order |-> <<>>, res |-> "none"]

Exists(l) == l \in DOMAIN leads

(* A new request takes the lowest free slot. *)
Free(s) ==
    /\ req[s].pc = "idle"
    /\ \A r \in Slots : r < s => req[r].pc # "idle"

(* Rows a request in flight has still to append for lead l. *)
Pending(l) ==
    Cardinality({s \in Slots : req[s].pc = "hist" /\ req[s].leadId = l})
    + Cardinality({s \in Slots : \E i \in 2..Len(req[s].batch) : req[s].batch[i] = l})

(* The bound on the length of a lead's history. *)
Room(l, cap) == Exists(l) => Len(history[l]) + Pending(l) < cap

(* The response of a request: what it was, and how it ended. *)
Done(op, actor, l, result) ==
    [Idle EXCEPT !.op = op, !.pc = "done", !.actor = actor, !.leadId = l,
                 !.res = result]

Reject(s, op, actor, l, result) ==
    req' = [req EXCEPT ![s] = Done(op, actor, l, result)]

Reply(s, result) ==
    req' = [req EXCEPT ![s] = Done(@.op, @.actor, @.leadId, result)]

----------------------------------------------------------------------------
Init ==
    /\ leads = <<>>
    /\ history = <<>>
    /\ now = 0
    /\ ticks = 0
    /\ req = [s \in Slots |-> Idle]
    /\ tasks = <<>>

Tick ==
    /\ ticks < MaxTicks
    /\ \E d \in TickSteps : now' = now + d
    /\ ticks' = ticks + 1
    /\ UNCHANGED <<leads, history, req, tasks>>

Return(s) ==
    /\ req[s].pc = "done"
    /\ req' = [req EXCEPT ![s] = Idle]
    /\ UNCHANGED <<leads, history, now, ticks, tasks>>

----------------------------------------------------------------------------
(* POST /api/leads: create a lead.  One store write. *)

AssignInputs == {Undefined, Null, "o1"}

CreateData(actor, assignee) ==
    IF assignee # Undefined /\ RoleOf(actor) # "admin" THEN Null
    ELSE IF assignee = Undefined THEN Null ELSE assignee

CreateLead(s, actor, l, assignee) ==
    /\ Free(s)
    /\ ~Exists(l)
    /\ IF actor = NoSession
       THEN /\ Reject(s, "create", actor, l, "Unauthenticated")
            /\ UNCHANGED <<leads, history>>
       ELSE IF RoleOf(actor) \notin {"admin", "lead_gen"}
       THEN /\ Reject(s, "create", actor, l, "Forbidden")
            /\ UNCHANGED <<leads, history>>
       ELSE /\ leads' = leads @@ (l :> NewLead(CreateData(actor, assignee), now))
            /\ history' = history @@ (l :> <<>>)
            /\ req' = [req EXCEPT ![s] =
                    [Done("create", actor, l, "ok") EXCEPT !.sent = assignee]]
    /\ UNCHANGED <<now, ticks, tasks>>

----------------------------------------------------------------------------
(* Role check shared by change-status and edit: who may write this lead. *)

MayWrite_Visible(actor, lead) ==
    /\ ~(RoleOf(actor) = "lead_gen" /\ lead.assignedToId # Null)
    /\ ~(RoleOf(actor) = "outreach" /\ lead.assignedToId \notin {Null, actor})

MayWrite(actor, lead) ==
    /\ ~(RoleOf(actor) = "lead_gen" /\ lead.assignedToId # Null)
    /\ ~(RoleOf(actor) = "outreach" /\ lead.assignedToId # actor)

(* First-occurrence timestamps: decided on the row the handler read (snap), *)
(* written into the row as it is now (cur).                                 *)
DateFields(cur, snap, status, t) ==
    IF status = "texted" /\ snap.textedAt = NoTime
    THEN [cur EXCEPT !.textedAt = t]
    ELSE IF status = "first_followup" /\ snap.firstFollowupAt = NoTime
    THEN [cur EXCEPT !.firstFollowupAt = t]
    ELSE IF status = "second_followup" /\ snap.secondFollowupAt = NoTime
    THEN [cur EXCEPT !.secondFollowupAt = t]
    ELSE IF status = "replied" /\ snap.repliedAt = NoTime
    THEN [cur EXCEPT !.repliedAt = t]
    ELSE cur

AppendHistory(l, row) == history' = [history EXCEPT ![l] = Append(@, row)]

----------------------------------------------------------------------------
(* POST /api/leads/[id]/status: change status *)

StartChangeStatus(s, actor, l, status) ==
    /\ Free(s)
    /\ IF actor = NoSession THEN Reject(s, "status", actor, l, "Unauthenticated")
       ELSE IF status \notin LEAD_STATUSES THEN Reject(s, "status", actor, l, "InvalidInput")
       ELSE IF ~Exists(l) THEN Reject(s, "status", actor, l, "NotFound")
       ELSE IF ~MayWrite(actor, leads[l]) THEN Reject(s, "status", actor, l, "Forbidden")
       ELSE req' = [req EXCEPT ![s] =
                [Idle EXCEPT !.op = "status", !.pc = "hist", !.actor = actor,
                             !.leadId = l, !.newStatus = status,
                             !.lead = leads[l]]]
    /\ UNCHANGED <<leads, history, now, ticks, tasks>>

ChangeStatusHistory(s) ==
    LET f == req[s] IN
    /\ f.op = "status" /\ f.pc = "hist"
    /\ AppendHistory(f.leadId,
            HistoryRow(f.actor, f.lead.status, f.newStatus, Null))
    /\ req' = [req EXCEPT ![s].pc = "upd"]
    /\ UNCHANGED <<leads, now, ticks, tasks>>

ChangeStatusUpdate(s) ==
    LET f == req[s] IN
    /\ f.op = "status" /\ f.pc = "upd"
    /\ leads' = [leads EXCEPT ![f.leadId] =
            DateFields([@ EXCEPT !.status = f.newStatus], f.lead, f.newStatus, now)]
    /\ Reply(s, "ok")
    /\ UNCHANGED <<history, now, ticks, tasks>>

----------------------------------------------------------------------------
(* POST /api/leads/[id]/claim *)

ClaimBlocked_AnyAssignee(actor, lead) == lead.assignedToId # Null

ClaimBlocked(actor, lead) ==
    lead.assignedToId # Null /\ lead.assignedToId # actor

StartClaim(s, actor, l) ==
    /\ Free(s)
    /\ IF actor = NoSession THEN Reject(s, "claim", actor, l, "Unauthenticated")
       ELSE IF RoleOf(actor) \notin {"outreach", "admin"} THEN Reject(s, "claim", actor, l, "Forbidden")
       ELSE IF ~Exists(l) THEN Reject(s, "claim", actor, l, "NotFound")
       ELSE IF ClaimBlocked(actor, leads[l]) THEN Reject(s, "claim", actor, l, "Conflict")
       ELSE req' = [req EXCEPT ![s] =
                [Idle EXCEPT !.op = "claim", !.pc = "hist", !.actor = actor,
                             !.leadId = l, !.lead = leads[l]]]
    /\ UNCHANGED <<leads, history, now, ticks, tasks>>

ClaimHistory(s) ==
    LET f == req[s] IN
    /\ f.op = "claim" /\ f.pc = "hist"
    /\ AppendHistory(f.leadId,
            HistoryRow(f.actor, f.lead.status, f.lead.status, "Lead claimed"))
    /\ req' = [req EXCEPT ![s].pc = "upd"]
    /\ UNCHANGED <<leads, now, ticks, tasks>>

ClaimUpdate(s) ==
    LET f == req[s] IN
    /\ f.op = "claim" /\ f.pc = "upd"
    /\ leads' = [leads EXCEPT ![f.leadId].assignedToId = f.actor]
    /\ Reply(s, "ok")
    /\ UNCHANGED <<history, now, ticks, tasks>>

----------------------------------------------------------------------------
(* POST /api/leads/[id]/unclaim *)

(* Outreach can only unclaim their own leads, admin can unclaim any lead. *)
NotOwnLead_Off(actor, lead) == FALSE

NotOwnLead(actor, lead) ==
    RoleOf(actor) = "outreach" /\ lead.assignedToId # actor

StartUnclaim(s, actor, l) ==
    /\ Free(s)
    /\ IF actor = NoSession THEN Reject(s, "unclaim", actor, l, "Unauthenticated")
       ELSE IF RoleOf(actor) \notin {"outreach", "admin"}
       THEN Reject(s, "unclaim", actor, l, "Forbidden")
       ELSE IF ~Exists(l) THEN Reject(s, "unclaim", actor, l, "NotFound")
       ELSE IF NotOwnLead(actor, leads[l])
       THEN Reject(s, "unclaim", actor, l, "Forbidden")
       ELSE IF leads[l].assignedToId = Null
       THEN Reject(s, "unclaim", actor, l, "AlreadyUnclaimed")
       ELSE req' = [req EXCEPT ![s] =
                [Idle EXCEPT !.op = "unclaim", !.pc = "hist", !.actor = actor,
                             !.leadId = l, !.lead = leads[l]]]
    /\ UNCHANGED <<leads, history, now, ticks, tasks>>

UnclaimHistory(s) ==
    LET f == req[s] IN
    /\ f.op = "unclaim" /\ f.pc = "hist"
    /\ AppendHistory(f.leadId,
            HistoryRow(f.actor, f.lead.status, f.lead.status, "Lead unclaimed"))
    /\ req' = [req EXCEPT ![s].pc = "upd"]
    /\ UNCHANGED <<leads, now, ticks, tasks>>

UnclaimUpdate(s) ==
    LET f == req[s] IN
    /\ f.op = "unclaim" /\ f.pc = "upd"
    /\ leads' = [leads EXCEPT ![f.leadId].assignedToId = Null]
    /\ Reply(s, "ok")
    /\ UNCHANGED <<history, now, ticks, tasks>>

----------------------------------------------------------------------------
(* PUT /api/leads/[id]: edit.  The payload carries an optional status and  *)
(* an optional assignedToId (Undefined = key absent).                      *)

(* Only admin can change assignment: the key is deleted for other roles. *)
StripAssignment_Keep(actor, assignee) == assignee

StripAssignment(actor, assignee) ==
    IF assignee # Undefined /\ RoleOf(actor) # "admin" THEN Undefined ELSE assignee

(* The edit tracks a status change: status given and not the stored one. *)
TracksStatus(status, lead) == status # Undefined /\ status # lead.status

StartEdit(s, actor, l, status, assignee) ==
    /\ Free(s)
    /\ IF actor = NoSession THEN Reject(s, "edit", actor, l, "Unauthenticated")
       ELSE IF status # Undefined /\ status \notin LEAD_STATUSES
       THEN Reject(s, "edit", actor, l, "InvalidInput")
       ELSE IF ~Exists(l) THEN Reject(s, "edit", actor, l, "NotFound")
       ELSE IF ~MayWrite(actor, leads[l]) THEN Reject(s, "edit", actor, l, "Forbidden")
       ELSE req' = [req EXCEPT ![s] =
                [Idle EXCEPT !.op = "edit",
                             !.pc = IF TracksStatus(status, leads[l])
                                    THEN "hist" ELSE "upd",
                             !.actor = actor, !.leadId = l, !.newStatus = status,
                             !.assignedToId = StripAssignment(actor, assignee),
                             !.sent = assignee,
                             !.lead = leads[l]]]
    /\ UNCHANGED <<leads, history, now, ticks, tasks>>

EditHistory(s) ==
    LET f == req[s] IN
    /\ f.op = "edit" /\ f.pc = "hist"
    /\ AppendHistory(f.leadId,
            HistoryRow(f.actor, f.lead.status, f.newStatus, Null))
    /\ req' = [req EXCEPT ![s].pc = "upd"]
    /\ UNCHANGED <<leads, now, ticks, tasks>>

(* updateData = the validated payload plus the date field of a tracked change *)
UpdateData(cur, f, t) ==
    LET a == IF f.assignedToId = Undefined THEN cur
             ELSE [cur EXCEPT !.assignedToId = f.assignedToId]
        b == IF f.newStatus = Undefined THEN a
             ELSE [a EXCEPT !.status = f.newStatus]
    IN  IF TracksStatus(f.newStatus, f.lead)
        THEN DateFields(b, f.lead, f.newStatus, t)
        ELSE b

EditUpdate(s) ==
    LET f == req[s] IN
    /\ f.op = "edit" /\ f.pc = "upd"
    /\ leads' = [leads EXCEPT ![f.leadId] = UpdateData(@, f, now)]
    /\ req' = [req EXCEPT ![s] =
            [Done("edit", f.actor, f.leadId, "ok") EXCEPT !.sent = f.sent]]
    /\ UNCHANGED <<history, now, ticks, tasks>>

----------------------------------------------------------------------------
(* runAutomationRules: second_followup older than 4 days -> junk.  The     *)
(* candidates are selected once; then, row by row, a history row is        *)
(* created and the lead updated.                                           *)

AdminUser == CHOOSE u \in Users : RoleOf(u) = "admin"

LeadsToTransition_Unlogged(fourDaysAgo) ==
    {l \in DOMAIN leads :
        /\ leads[l].status = "second_followup"
        /\ leads[l].secondFollowupAt # NoTime
        /\ leads[l].secondFollowupAt <= fourDaysAgo
        /\ history[l][Len(history[l])].newStatus # "junk"}

LeadsToTransition_AnyStatus(fourDaysAgo) ==
    {l \in DOMAIN leads :
        /\ leads[l].secondFollowupAt # NoTime
        /\ leads[l].secondFollowupAt <= fourDaysAgo}

LeadsToTransition_AnyAge(fourDaysAgo) ==
    {l \in DOMAIN leads :
        leads[l].status = "second_followup" /\ leads[l].secondFollowupAt # NoTime}

LeadsToTransition(fourDaysAgo) ==
    {l \in DOMAIN leads :
        /\ leads[l].status = "second_followup"
        /\ leads[l].secondFollowupAt # NoTime
        /\ leads[l].secondFollowupAt <= fourDaysAgo}

(* findMany without orderBy: the rows in any order *)
Orders(S) ==
    {q \in [1..Cardinality(S) -> S] : \A i, j \in 1..Cardinality(S) : q[i] = q[j] => i = j}

StartSweep(s) ==
    LET cands == LeadsToTransition(now - FOLLOWUP_2_TO_JUNK_MS) IN
    /\ Free(s)
    /\ IF cands = {}
       THEN req' = [req EXCEPT ![s] =
                [Done("sweep", NoSession, Null, "ok") EXCEPT
                    !.fourDaysAgo = now - FOLLOWUP_2_TO_JUNK_MS]]
       ELSE \E q \in Orders(cands) :
            req' = [req EXCEPT ![s] =
                [Idle EXCEPT !.op = "sweep", !.pc = "hist", !.leadId = q[1],
                             !.batch = q, !.transitioned = Len(q),
                             !.fourDaysAgo = now - FOLLOWUP_2_TO_JUNK_MS]]
    /\ UNCHANGED <<leads, history, now, ticks, tasks>>

SweepHistory(s) ==
    LET f == req[s] IN
    /\ f.op \in {"sweep", "listStatus"} /\ f.pc = "hist"
    /\ AppendHistory(f.leadId,
            HistoryRow(AdminUser, "second_followup", "junk",
                       "Automated: Second Follow-up > 4 days"))
    /\ req' = [req EXCEPT ![s].pc = "upd"]
    /\ UNCHANGED <<leads, now, ticks, tasks>>

SweepUpdate(s) ==
    LET f == req[s]
        rest == Tail(f.batch)
    IN
    /\ f.op \in {"sweep", "listStatus"} /\ f.pc = "upd"
    /\ leads' = [leads EXCEPT ![f.leadId].status = "junk"]
    /\ IF rest = <<>> /\ f.op = "sweep"
       THEN req' = [req EXCEPT ![s] =
                [Done("sweep", NoSession, Null, "ok") EXCEPT
                    !.transitioned = f.transitioned,
                    !.fourDaysAgo = f.fourDaysAgo]]
       ELSE IF rest = <<>>
       THEN req' = [req EXCEPT ![s] =
                [f EXCEPT !.pc = "query", !.leadId = Null, !.batch = rest]]
       ELSE req' = [req EXCEPT ![s] =
                [f EXCEPT !.pc = "hist", !.leadId = rest[1], !.batch = rest]]
    /\ UNCHANGED <<history, now, ticks, tasks>>

----------------------------------------------------------------------------
(* Lead listings.  Each endpoint builds a Prisma where clause from the     *)
(* session's role and the query parameters and returns the leads that      *)
(* match; a where clause is modelled by the predicate it denotes on a lead *)
(* row.  skip/take return a part of the matching rows and are left out.    *)
(* The columns system, name, email and company are written by no handler   *)
(* of the model; they are fixed per lead.                                  *)

SystemOf(l) == "linkedin_one"

(* The search strings that name, email or company of lead l contain. *)
SearchHits(l) == {"al"}

Contains(l, search) == search \in SearchHits(l)

(* { not: null, lte: now - days } *)
OlderThan(t, days) == t # NoTime /\ t <= now - days * Day

ListOps == {"list", "listStatus", "listAction", "listDate"}

Row(l) == [id |-> l, lead |-> leads[l]]

(* orderBy: { createdAt: 'desc' }: rows of equal createdAt in any order *)
createdAtDesc(ids) ==
    {q \in Orders(ids) :
        \A i, j \in 1..Len(q) :
            i < j => leads[q[i]].createdAt >= leads[q[j]].createdAt}

Found(s, op, actor, rows) ==
    \E q \in createdAtDesc({r.id : r \in rows}) :
        req' = [req EXCEPT ![s] =
                [Done(op, actor, Null, "ok") EXCEPT !.found = rows, !.order = q]]

(* where by role: the same in the general, status and date-filter listings *)
RoleScope_Open(actor, lead) == TRUE

RoleScope_AnyUnassigned(actor, lead) ==
    CASE RoleOf(actor) = "admin" -> TRUE
      [] RoleOf(actor) = "lead_gen" -> lead.assignedToId = Null
      [] RoleOf(actor) = "outreach" ->
            lead.assignedToId = Null \/ lead.assignedToId = actor
      [] OTHER -> TRUE

RoleScope(actor, lead) ==
    CASE RoleOf(actor) = "admin" -> TRUE
      [] RoleOf(actor) = "lead_gen" ->
            lead.assignedToId = Null /\ lead.status = "new"
      [] RoleOf(actor) = "outreach" ->
            lead.assignedToId = Null \/ lead.assignedToId = actor
      [] OTHER -> TRUE

(* The named presets of the general and the action listing. *)
StalePreset(filter, lead) ==
    CASE filter = "texted_old" ->
            lead.status = "texted" /\ OlderThan(lead.textedAt, 4)
      [] filter = "first_followup_old" ->
            lead.status = "first_followup" /\ OlderThan(lead.firstFollowupAt, 4)
      [] filter = "replied_old" ->
            lead.status = "replied" /\ OlderThan(lead.repliedAt, 6)
      [] OTHER -> TRUE

(* GET /api/leads *)
LeadsWhere(actor, p, l) ==
    LET lead == leads[l]
        role == RoleOf(actor)
        byFilter == p.filter # Null /\ p.filter # "all"
        where == IF byFilter /\ p.filter = "unclaimed" /\ role = "outreach"
                 THEN lead.assignedToId = Null
                 ELSE RoleScope(actor, lead)
        additionalConditions ==
            /\ IF byFilter
               THEN IF p.filter = "unclaimed"
                    THEN role # "outreach" => lead.assignedToId = Null
                    ELSE StalePreset(p.filter, lead)
               ELSE (p.status # Null /\ p.status # "all" /\ role # "lead_gen")
                        => lead.status = p.status
            /\ (p.system # Null /\ p.system # "all") => SystemOf(l) = p.system
            /\ p.search # Null => Contains(l, p.search)
    IN  where /\ additionalConditions

ListLeads(s, actor, p) ==
    /\ Free(s)
    /\ IF actor = NoSession THEN Reject(s, "list", actor, Null, "Unauthenticated")
       ELSE Found(s, "list", actor, {Row(l) : l \in {k \in DOMAIN leads : LeadsWhere(actor, p, k)}})
    /\ UNCHANGED <<leads, history, now, ticks, tasks>>

(* GET /api/leads/action *)
ActionWhere(actor, p, l) ==
    LET lead == leads[l]
        where == IF p.filter = "unclaimed"
                 THEN lead.status = "new" /\ lead.assignedToId = Null
                 ELSE StalePreset(p.filter, lead)
        byRole == IF RoleOf(actor) = "outreach" /\ p.filter # "unclaimed"
                  THEN where /\ (lead.assignedToId = Null \/ lead.assignedToId = actor)
                  ELSE where
    IN  /\ byRole
        /\ (p.system # Null /\ p.system # "all") => SystemOf(l) = p.system
        /\ p.search # Null => Contains(l, p.search)

ActionFilters == {"unclaimed", "texted_old", "first_followup_old", "replied_old"}

ListAction(s, actor, p) ==
    /\ Free(s)
    /\ IF actor = NoSession
       THEN Reject(s, "listAction", actor, Null, "Unauthenticated")
       ELSE IF p.filter \notin ActionFilters
       THEN Reject(s, "listAction", actor, Null, "InvalidInput")
       ELSE IF RoleOf(actor) = "lead_gen" /\ p.filter # "unclaimed"
       THEN Reject(s, "listAction", actor, Null, "Forbidden")
       ELSE Found(s, "listAction", actor, {Row(l) : l \in {k \in DOMAIN leads : ActionWhere(actor, p, k)}})
    /\ UNCHANGED <<leads, history, now, ticks, tasks>>

(* GET /api/leads/date-filter: p.date is a day (its number since the epoch, *)
(* NoTime when the parameter is missing), p.statuses the selected statuses. *)
StatusDateField(lead, status) ==
    CASE status = "texted" -> lead.textedAt
      [] status = "replied" -> lead.repliedAt
      [] status = "first_followup" -> lead.firstFollowupAt
      [] status = "second_followup" -> lead.secondFollowupAt
      [] OTHER -> NoTime

DateWhere(actor, p, l) ==
    LET lead == leads[l]
        dateStart == p.date * Day
        dateEnd == p.date * Day + Day - 1
        OnDay(t) == t # NoTime /\ dateStart <= t /\ t <= dateEnd
        bySystem == (p.system # Null /\ p.system # "all") => SystemOf(l) = p.system
        dateStatusConditions ==
            IF p.statuses # {}
            THEN \/ OnDay(lead.createdAt) /\ lead.status \in p.statuses /\ bySystem
                 \/ /\ \E i \in 1..Len(history[l]) :
                          /\ history[l][i].newStatus \in p.statuses
                          /\ OnDay(history[l][i].createdAt)
                    /\ bySystem
                 \/ \E st \in p.statuses :
                        /\ OnDay(StatusDateField(lead, st))
                        /\ lead.status = st
                        /\ bySystem
            ELSE OnDay(lead.createdAt) /\ bySystem
    IN  /\ RoleScope(actor, lead)
        /\ dateStatusConditions
        /\ p.search # Null => Contains(l, p.search)

ListDate(s, actor, p) ==
    /\ Free(s)
    /\ IF actor = NoSession
       THEN Reject(s, "listDate", actor, Null, "Unauthenticated")
       ELSE IF p.date = NoTime
       THEN Reject(s, "listDate", actor, Null, "InvalidInput")
       ELSE Found(s, "listDate", actor, {Row(l) : l \in {k \in DOMAIN leads : DateWhere(actor, p, k)}})
    /\ UNCHANGED <<leads, history, now, ticks, tasks>>

(* GET /api/leads/status: runs the automation rules, then queries. *)
StatusWhere(actor, status, search, l) ==
    LET lead == leads[l] IN
    /\ RoleScope(actor, lead)
    /\ (status # Null /\ status # "all") => lead.status = status
    /\ search # Null => Contains(l, search)

StartListStatus(s, actor, status, search) ==
    LET cands == LeadsToTransition(now - FOLLOWUP_2_TO_JUNK_MS) IN
    /\ Free(s)
    /\ IF actor = NoSession
       THEN Reject(s, "listStatus", actor, Null, "Unauthenticated")
       ELSE IF cands = {}
       THEN req' = [req EXCEPT ![s] =
                [Idle EXCEPT !.op = "listStatus", !.pc = "query", !.actor = actor,
                             !.newStatus = status, !.search = search]]
       ELSE \E q \in Orders(cands) :
            req' = [req EXCEPT ![s] =
                [Idle EXCEPT !.op = "listStatus", !.pc = "hist", !.actor = actor,
                             !.newStatus = status, !.search = search,
                             !.leadId = q[1], !.batch = q,
                             !.transitioned = Len(q),
                             !.fourDaysAgo = now - FOLLOWUP_2_TO_JUNK_MS]]
    /\ UNCHANGED <<leads, history, now, ticks, tasks>>

ListStatusQuery(s) ==
    LET f == req[s] IN
    /\ f.op = "listStatus" /\ f.pc = "query"
    /\ Found(s, "listStatus", f.actor,
             {Row(l) : l \in {k \in DOMAIN leads : StatusWhere(f.actor, f.newStatus, f.search, k)}})
    /\ UNCHANGED <<leads, history, now, ticks, tasks>>

(* Query parameters a client sends. *)
StatusParams == {Null, "all", "new", "texted"}
FilterParams == {Null, "all", "unclaimed", "texted_old", "replied_old", "bogus"}
SystemParams == {Null, "upwork"}
SearchParams == {Null, "al", "zz"}
DateParams == {NoTime, 0, 4}
StatusesParams == {{}, {"texted"}, {"new", "second_followup"}}

(* A request without a session is answered before its parameters are read. *)
Sent(a, blank) == a = NoSession => blank

Listing(cap) ==
    \/ \E s \in Slots, a \in Actors, st \in StatusParams, fi \in FilterParams,
          sy \in SystemParams, se \in SearchParams :
            /\ Sent(a, st = Null /\ fi = Null /\ sy = Null /\ se = Null)
            /\ ListLeads(s, a, [status |-> st, filter |-> fi, system |-> sy, search |-> se])
    \/ \E s \in Slots, a \in Actors, fi \in FilterParams,
          sy \in SystemParams, se \in SearchParams :
            /\ Sent(a, fi = Null /\ sy = Null /\ se = Null)
            /\ ListAction(s, a, [filter |-> fi, system |-> sy, search |-> se])
    \/ \E s \in Slots, a \in Actors, d \in DateParams, sts \in StatusesParams,
          sy \in SystemParams, se \in SearchParams :
            /\ Sent(a, d = NoTime /\ sts = {} /\ sy = Null /\ se = Null)
            /\ ListDate(s, a, [date |-> d, statuses |-> sts, system |-> sy, search |-> se])
    \/ \E s \in Slots, a \in Actors, st \in StatusParams, se \in SearchParams :
            /\ Sent(a, st = Null /\ se = Null)
            /\ \A l \in LeadsToTransition(now - FOLLOWUP_2_TO_JUNK_MS) : Room(l, cap)
            /\ StartListStatus(s, a, st, se)

----------------------------------------------------------------------------
(* A store call that throws: the handler's catch answers 500 and nothing   *)
(* of the failed call is written.                                           *)
StoreFail(s) ==
    /\ req[s].pc \in {"hist", "upd"}
    /\ Reply(s, "Error")
    /\ UNCHANGED <<leads, history, now, ticks, tasks>>

----------------------------------------------------------------------------
Begin(cap, actors, statuses, assignees) ==
    \/ \E s \in Slots, a \in actors, l \in LeadIds, x \in assignees :
            CreateLead(s, a, l, x)
    \/ \E s \in Slots, a \in actors, l \in LeadIds, st \in statuses :
            Room(l, cap) /\ StartChangeStatus(s, a, l, st)
    \/ \E s \in Slots, a \in actors, l \in LeadIds :
            Room(l, cap) /\ StartClaim(s, a, l)
    \/ \E s \in Slots, a \in actors, l \in LeadIds :
            Room(l, cap) /\ StartUnclaim(s, a, l)
    \/ \E s \in Slots, a \in actors, l \in LeadIds,
          st \in statuses \cup {Undefined}, x \in assignees :
            Room(l, cap) /\ StartEdit(s, a, l, st, x)
    \/ \E s \in Slots :
            /\ \A l \in LeadsToTransition(now - FOLLOWUP_2_TO_JUNK_MS) : Room(l, cap)
            /\ StartSweep(s)

Step ==
    \/ \E s \in Slots : ChangeStatusHistory(s)
    \/ \E s \in Slots : ChangeStatusUpdate(s)
    \/ \E s \in Slots : ClaimHistory(s)
    \/ \E s \in Slots : ClaimUpdate(s)
    \/ \E s \in Slots : UnclaimHistory(s)
    \/ \E s \in Slots : UnclaimUpdate(s)
    \/ \E s \in Slots : EditHistory(s)
    \/ \E s \in Slots : EditUpdate(s)
    \/ \E s \in Slots : SweepHistory(s)
    \/ \E s \in Slots : SweepUpdate(s)

(* Requests overlap at their store round trips. *)
ConcActors == {"o1", "o2", "g1"}

Next ==
    \/ Tick
    \/ \E s \in Slots : Return(s)
    \/ Begin(MaxHist, ConcActors, StatusInputs, {Undefined})
    \/ Step

Spec == Init /\ [][Next]_vars

(* One request at a time. *)
Quiet == \A s \in Slots : req[s].pc = "idle"

SeqNext ==
    \/ Tick
    \/ \E s \in Slots : Return(s)
    \/ Quiet /\ Begin(MaxHistSeq, Actors, SeqStatusInputs, AssignInputs)
    \/ Step

SeqSpec == Init /\ [][SeqNext]_vars

(* One request at a time, on a store whose writes may fail. *)
FaultNext ==
    \/ Tick
    \/ \E s \in Slots : Return(s)
    \/ Quiet /\ Begin(MaxHistSeq, Users, StatusInputs, AssignInputs)
    \/ Step
    \/ \E s \in Slots : StoreFail(s)

FaultSpec == Init /\ [][FaultNext]_vars

(* One request at a time, the listings among them; leads are written by   *)
(* an admin and an outreach user and listed by every actor.                *)
ListWriters == {"a1", "o1"}

ListNext ==
    \/ Tick
    \/ \E s \in Slots : Return(s)
    \/ Quiet /\ Begin(MaxHistSeq, ListWriters, StatusInputs, {Undefined, "o1"})
    \/ Quiet /\ Listing(MaxHistSeq)
    \/ Step
    \/ \E s \in Slots : ListStatusQuery(s)

ListSpec == Init /\ [][ListNext]_vars

(* Sweeps over two leads, one request at a time; a store call may throw.   *)
(* An admin creates leads and sets their status; the clock advances by     *)
(* three days or by a day and a second.                                    *)
SweepLeads == {"L1", "L2"}
OneSecond == 1000
SweepTickSteps == {3 * Day, Day + OneSecond}
SweepStatusInputs == {"second_followup"}

SweepTick ==
    /\ ticks < MaxSweepTicks
    /\ \E d \in SweepTickSteps : now' = now + d
    /\ ticks' = ticks + 1
    /\ UNCHANGED <<leads, history, req, tasks>>

SweepBegin ==
    \/ \E s \in Slots, l \in SweepLeads : CreateLead(s, AdminUser, l, Undefined)
    \/ \E s \in Slots, l \in SweepLeads, st \in SweepStatusInputs :
            Room(l, MaxHistSweep) /\ StartChangeStatus(s, AdminUser, l, st)
    \/ \E s \in Slots :
            /\ \A l \in LeadsToTransition(now - FOLLOWUP_2_TO_JUNK_MS) :
                    Room(l, MaxHistSweep)
            /\ StartSweep(s)

(* The next sweep starts while the answer of the last one is still out. *)
SweepAgain ==
    /\ \A r \in Slots : req[r].pc \in {"idle", "done"}
    /\ \E r \in Slots : req[r].pc = "done" /\ req[r].op = "sweep"
    /\ \E s \in Slots :
            /\ \A l \in LeadsToTransition(now - FOLLOWUP_2_TO_JUNK_MS) :
                    Room(l, MaxHistSweep)
            /\ StartSweep(s)

SweepNext ==
    \/ SweepTick
    \/ \E s \in Slots : Return(s)
    \/ Quiet /\ SweepBegin
    \/ SweepAgain
    \/ \E s \in Slots : ChangeStatusHistory(s)
    \/ \E s \in Slots : ChangeStatusUpdate(s)
    \/ \E s \in Slots : SweepHistory(s)
    \/ \E s \in Slots : SweepUpdate(s)
    \/ \E s \in Slots : StoreFail(s)

SweepSpec == Init /\ [][SweepNext]_vars

----------------------------------------------------------------------------
(* Tasks.  A task row: status, createdAt, dueAt, completedAt, assignedToId. *)
(* A date in a payload is absent, an ISO instant ("...T...Z"), a day       *)
(* ("YYYY-MM-DD") or a string that is neither.                             *)

TaskIds == {"T1"}
TaskActors == {"a1", "o1", "o2"}
TaskAssignees == {"o1"}

TimeInputs ==
    {Absent, [kind |-> "iso", v |-> 0], [kind |-> "iso", v |-> Day],
     [kind |-> "date", v |-> 1], [kind |-> "bad", v |-> 0]}

(* An instant as it is; a day at the current UTC hour, minute and second;  *)
(* anything else null.                                                      *)
parseTaskTimestamp(str, t) ==
    CASE str.kind = "iso" -> str.v
      [] str.kind = "date" -> str.v * Day + ((t % Day) \div OneSecond) * OneSecond
      [] OTHER -> NoTime

TaskExists(id) == id \in DOMAIN tasks

TaskDone(op, actor, id, result) ==
    [Done(op, actor, Null, result) EXCEPT !.taskId = id]

TaskReject(s, op, actor, id, result) ==
    req' = [req EXCEPT ![s] = TaskDone(op, actor, id, result)]

(* POST /api/tasks: createdAt defaults to now and dueAt to now + 24 hours; *)
(* a parsed payload date replaces its default.                             *)
DefaultDue(t) == t + Day

NewTask(createdAtStr, dueAtStr, assignee, t) ==
    LET parsedCreated == parseTaskTimestamp(createdAtStr, t)
        parsedDue == parseTaskTimestamp(dueAtStr, t)
        createdAt == IF parsedCreated # NoTime THEN parsedCreated ELSE t
        dueAt == IF parsedDue # NoTime THEN parsedDue ELSE DefaultDue(t)
    IN  [status |-> "undone", createdAt |-> createdAt, dueAt |-> dueAt,
         completedAt |-> NoTime, assignedToId |-> assignee]

DatesInOrder(createdAt, dueAt) == ~(dueAt < createdAt)

CreateTask(s, actor, id, createdAtStr, dueAtStr, assignee) ==
    LET task == NewTask(createdAtStr, dueAtStr, assignee, now) IN
    /\ Free(s)
    /\ ~TaskExists(id)
    /\ IF actor = NoSession
       THEN TaskReject(s, "createTask", actor, id, "Unauthenticated") /\ tasks' = tasks
       ELSE IF RoleOf(actor) # "admin"
       THEN TaskReject(s, "createTask", actor, id, "Forbidden") /\ tasks' = tasks
       ELSE IF /\ (createdAtStr # Absent \/ dueAtStr # Absent)
               /\ ~DatesInOrder(task.createdAt, task.dueAt)
       THEN TaskReject(s, "createTask", actor, id, "InvalidInput") /\ tasks' = tasks
       ELSE /\ tasks' = tasks @@ (id :> task)
            /\ req' = [req EXCEPT ![s] =
                    [TaskDone("createTask", actor, id, "ok") EXCEPT
                        !.createdAtStr = createdAtStr,
                        !.dueAtStr = dueAtStr]]
    /\ UNCHANGED <<leads, history, now, ticks>>

(* PATCH /api/tasks/[id] with { completed: true } *)
canComplete_Anyone(actor, task) == TRUE

canComplete(actor, task) == RoleOf(actor) = "admin" \/ task.assignedToId = actor

StartComplete(s, actor, id) ==
    /\ Free(s)
    /\ IF actor = NoSession THEN TaskReject(s, "complete", actor, id, "Unauthenticated")
       ELSE IF ~TaskExists(id) THEN TaskReject(s, "complete", actor, id, "NotFound")
       ELSE IF ~canComplete(actor, tasks[id])
       THEN TaskReject(s, "complete", actor, id, "Forbidden")
       ELSE IF tasks[id].completedAt # NoTime
       THEN TaskReject(s, "complete", actor, id, "ok")
       ELSE req' = [req EXCEPT ![s] =
                [Idle EXCEPT !.op = "complete", !.pc = "taskUpd", !.actor = actor,
                             !.taskId = id]]
    /\ UNCHANGED <<leads, history, now, ticks, tasks>>

CompleteUpdate(s) ==
    LET f == req[s] IN
    /\ f.op = "complete" /\ f.pc = "taskUpd"
    /\ IF TaskExists(f.taskId)
       THEN /\ tasks' = [tasks EXCEPT ![f.taskId].completedAt = now,
                                      ![f.taskId].status = "done"]
            /\ TaskReject(s, "complete", f.actor, f.taskId, "ok")
       ELSE /\ tasks' = tasks
            /\ TaskReject(s, "complete", f.actor, f.taskId, "Error")
    /\ UNCHANGED <<leads, history, now, ticks>>

(* PATCH /api/tasks/[id] with fields to edit (admin only): a body the      *)
(* schema refuses (success = FALSE) is answered before the role check; the *)
(* dates are validated on the row read, merged with the parsed payload,    *)
(* and the parsed fields are written in a later store call.                *)
StartEditTask(s, actor, id, success, createdAtStr, dueAtStr, assignee) ==
    LET createdAt == parseTaskTimestamp(createdAtStr, now)
        dueAt == parseTaskTimestamp(dueAtStr, now)
        existing == tasks[id]
        effectiveCreated == IF createdAt # NoTime THEN createdAt ELSE existing.createdAt
        effectiveDue == IF dueAt # NoTime THEN dueAt ELSE existing.dueAt
    IN
    /\ Free(s)
    /\ IF actor = NoSession THEN TaskReject(s, "editTask", actor, id, "Unauthenticated")
       ELSE IF ~success THEN TaskReject(s, "editTask", actor, id, "InvalidInput")
       ELSE IF RoleOf(actor) # "admin"
       THEN TaskReject(s, "editTask", actor, id, "Forbidden")
       ELSE IF ~TaskExists(id) THEN TaskReject(s, "editTask", actor, id, "NotFound")
       ELSE IF ~DatesInOrder(effectiveCreated, effectiveDue)
       THEN TaskReject(s, "editTask", actor, id, "InvalidInput")
       ELSE IF createdAt = NoTime /\ dueAt = NoTime /\ assignee = Undefined
       THEN TaskReject(s, "editTask", actor, id, "ok")
       ELSE req' = [req EXCEPT ![s] =
                [Idle EXCEPT !.op = "editTask", !.pc = "taskUpd", !.actor = actor,
                             !.taskId = id, !.createdAt = createdAt,
                             !.dueAt = dueAt, !.assignedToId = assignee]]
    /\ UNCHANGED <<leads, history, now, ticks, tasks>>

TaskData(cur, f) ==
    LET a == IF f.createdAt = NoTime THEN cur ELSE [cur EXCEPT !.createdAt = f.createdAt]
        b == IF f.dueAt = NoTime THEN a ELSE [a EXCEPT !.dueAt = f.dueAt]
    IN  IF f.assignedToId = Undefined THEN b
        ELSE [b EXCEPT !.assignedToId = f.assignedToId]

EditTaskUpdate(s) ==
    LET f == req[s] IN
    /\ f.op = "editTask" /\ f.pc = "taskUpd"
    /\ IF TaskExists(f.taskId)
       THEN /\ tasks' = [tasks EXCEPT ![f.taskId] = TaskData(@, f)]
            /\ TaskReject(s, "editTask", f.actor, f.taskId, "ok")
       ELSE /\ tasks' = tasks
            /\ TaskReject(s, "editTask", f.actor, f.taskId, "Error")
    /\ UNCHANGED <<leads, history, now, ticks>>

(* DELETE /api/tasks/[id] *)
DeleteTask(s, actor, id) ==
    /\ Free(s)
    /\ IF actor = NoSession
       THEN TaskReject(s, "deleteTask", actor, id, "Unauthenticated") /\ tasks' = tasks
       ELSE IF RoleOf(actor) # "admin"
       THEN TaskReject(s, "deleteTask", actor, id, "Forbidden") /\ tasks' = tasks
       ELSE IF ~TaskExists(id)
       THEN TaskReject(s, "deleteTask", actor, id, "NotFound") /\ tasks' = tasks
       ELSE /\ tasks' = [k \in DOMAIN tasks \ {id} |-> tasks[k]]
            /\ TaskReject(s, "deleteTask", actor, id, "ok")
    /\ UNCHANGED <<leads, history, now, ticks>>

(* syncTaskBacklog: one updateMany, undone and overdue -> backlog *)
Overdue_Inclusive(t) == {id \in DOMAIN tasks : tasks[id].status = "undone" /\ tasks[id].dueAt <= t}

Overdue_AnyStatus(t) == {id \in DOMAIN tasks : tasks[id].dueAt < t}

Overdue(t) == {id \in DOMAIN tasks : tasks[id].status = "undone" /\ tasks[id].dueAt < t}

syncTaskBacklog(s) ==
    LET moved == Overdue(now) IN
    /\ Free(s)
    /\ tasks' = [id \in DOMAIN tasks |->
                    IF id \in moved THEN [tasks[id] EXCEPT !.status = "backlog"]
                    ELSE tasks[id]]
    /\ req' = [req EXCEPT ![s] =
            [Done("taskSweep", NoSession, Null, "ok") EXCEPT
                !.transitioned = Cardinality(moved), !.at = now]]
    /\ UNCHANGED <<leads, history, now, ticks>>

(* Task requests overlap at their store round trips; the clock advances by *)
(* twelve hours.                                                           *)
TaskTickSteps == {Day \div 2}

TaskTick ==
    /\ ticks < MaxTaskTicks
    /\ \E d \in TaskTickSteps : now' = now + d
    /\ ticks' = ticks + 1
    /\ UNCHANGED <<leads, history, req, tasks>>

TaskNext ==
    \/ TaskTick
    \/ \E s \in Slots : Return(s)
    \/ \E s \in Slots, a \in TaskActors, id \in TaskIds,
          c \in TimeInputs, d \in TimeInputs, x \in TaskAssignees :
            CreateTask(s, a, id, c, d, x)
    \/ \E s \in Slots, a \in TaskActors, id \in TaskIds : StartComplete(s, a, id)
    \/ \E s \in Slots : CompleteUpdate(s)
    \/ \E s \in Slots, a \in TaskActors, id \in TaskIds,
          c \in TimeInputs, d \in TimeInputs, x \in {Undefined, "o2"} :
            StartEditTask(s, a, id, TRUE, c, d, x)
    \/ \E s \in Slots, a \in TaskActors, id \in TaskIds :
            StartEditTask(s, a, id, FALSE, Absent, Absent, Undefined)
    \/ \E s \in Slots : EditTaskUpdate(s)
    \/ \E s \in Slots, a \in TaskActors, id \in TaskIds : DeleteTask(s, a, id)
    \/ \E s \in Slots : syncTaskBacklog(s)

TaskSpec == Init /\ [][TaskNext]_vars

(* Reruns.  Both sweeps with one request at a time and no store failure;   *)
(* a sweep may be called again while the answer of the last call of the    *)
(* same sweep is still out, with nothing else in between.                  *)
RerunLeads == {"L1"}

RerunBegin ==
    \/ \E s \in Slots, l \in RerunLeads : CreateLead(s, AdminUser, l, Undefined)
    \/ \E s \in Slots, l \in RerunLeads, st \in SweepStatusInputs :
            Room(l, MaxHistSweep) /\ StartChangeStatus(s, AdminUser, l, st)
    \/ \E s \in Slots :
            /\ \A l \in LeadsToTransition(now - FOLLOWUP_2_TO_JUNK_MS) :
                    Room(l, MaxHistSweep)
            /\ StartSweep(s)
    \/ \E s \in Slots, id \in TaskIds, x \in TaskAssignees :
            CreateTask(s, AdminUser, id, Absent, Absent, x)
    \/ \E s \in Slots : syncTaskBacklog(s)

TaskSweepAgain ==
    /\ \A r \in Slots : req[r].pc \in {"idle", "done"}
    /\ \E r \in Slots : req[r].pc = "done" /\ req[r].op = "taskSweep"
    /\ \E s \in Slots : syncTaskBacklog(s)

RerunNext ==
    \/ SweepTick
    \/ \E s \in Slots : Return(s)
    \/ Quiet /\ RerunBegin
    \/ SweepAgain
    \/ TaskSweepAgain
    \/ \E s \in Slots : ChangeStatusHistory(s)
    \/ \E s \in Slots : ChangeStatusUpdate(s)
    \/ \E s \in Slots : SweepHistory(s)
    \/ \E s \in Slots : SweepUpdate(s)

RerunSpec == Init /\ [][RerunNext]_vars

(* GET /api/tasks.  The handler first moves overdue undone tasks to        *)
(* backlog, then builds its where clause from the session and the query    *)
(* parameters and reads the matching tasks.                                *)
ListTaskIds == {"T1", "T2"}
ListTaskAssignees == {"o1", "o2"}
TASK_STATUS_FILTERS == {"undone", "done", "backlog"}
StatusFilters == {"all", "done", "backlog"}
UserIdFilters == {"", "o2"}
DateFilters == {Absent, [kind |-> "date", v |-> 0]}
DueDateFilters == {Absent, [kind |-> "date", v |-> 1]}

(* a date string selects its whole UTC day; anything else selects nothing *)
parseSingleDate(dateStr) ==
    CASE dateStr.kind = "date" ->
            [gte |-> dateStr.v * Day, lte |-> dateStr.v * Day + Day - 1]
      [] dateStr.kind = "iso" ->
            [gte |-> (dateStr.v \div Day) * Day,
             lte |-> (dateStr.v \div Day) * Day + Day - 1]
      [] OTHER -> NoRange

TaskWhere_UserId(actor, statusFilter, userId, date, dueDateTo, createdAtTo) ==
    [assignedToId |-> IF userId # "" THEN userId ELSE actor,
     status |-> IF statusFilter \in TASK_STATUS_FILTERS THEN statusFilter
                ELSE Undefined,
     dueAt |-> parseSingleDate(dueDateTo),
     createdAt |-> parseSingleDate(createdAtTo)]

TaskWhere(actor, statusFilter, userId, date, dueDateTo, createdAtTo) ==
    LET status == IF statusFilter \in TASK_STATUS_FILTERS THEN statusFilter
                  ELSE Undefined
        dueOnDate == parseSingleDate(dueDateTo)
        createdOnDate == parseSingleDate(createdAtTo)
    IN  IF RoleOf(actor) = "admin"
        THEN [assignedToId |-> IF userId # "" THEN userId ELSE Undefined,
              status |-> status,
              dueAt |-> IF dueOnDate # NoRange THEN dueOnDate
                        ELSE parseSingleDate(date),
              createdAt |-> createdOnDate]
        ELSE [assignedToId |-> actor, status |-> status, dueAt |-> dueOnDate,
              createdAt |-> createdOnDate]

InRange(range, t) == range = NoRange \/ (range.gte <= t /\ t <= range.lte)

TaskMatches(where, task) ==
    /\ where.assignedToId = Undefined \/ task.assignedToId = where.assignedToId
    /\ where.status = Undefined \/ task.status = where.status
    /\ InRange(where.dueAt, task.dueAt)
    /\ InRange(where.createdAt, task.createdAt)

TaskRow(id) == [id |-> id, task |-> tasks[id]]

StartListTasks(s, actor, statusFilter, userId, date, dueDateTo, createdAtTo) ==
    LET moved == Overdue(now) IN
    /\ Free(s)
    /\ IF actor = NoSession
       THEN /\ TaskReject(s, "listTasks", actor, Null, "Unauthenticated")
            /\ tasks' = tasks
       ELSE /\ tasks' = [id \in DOMAIN tasks |->
                    IF id \in moved THEN [tasks[id] EXCEPT !.status = "backlog"]
                    ELSE tasks[id]]
            /\ req' = [req EXCEPT ![s] =
                    [Idle EXCEPT !.op = "listTasks", !.pc = "taskQuery",
                                 !.actor = actor, !.at = now, !.sent = userId,
                                 !.where = TaskWhere(actor, statusFilter, userId,
                                               date, dueDateTo, createdAtTo)]]
    /\ UNCHANGED <<leads, history, now, ticks>>

ListTasksQuery(s) ==
    LET f == req[s] IN
    /\ f.op = "listTasks" /\ f.pc = "taskQuery"
    /\ req' = [req EXCEPT ![s] =
            [TaskDone("listTasks", f.actor, Null, "ok") EXCEPT
                !.found = {TaskRow(id) : id \in
                            {k \in DOMAIN tasks : TaskMatches(f.where, tasks[k])}},
                !.where = f.where, !.sent = f.sent, !.at = f.at]]
    /\ UNCHANGED <<leads, history, now, ticks, tasks>>

(* Task listings with one request at a time over two tasks of two          *)
(* assignees.                                                              *)
TaskListers == {"a1", "o1", "g1", NoSession}

TaskListBegin ==
    \/ \E s \in Slots, id \in ListTaskIds, d \in TimeInputs \ {[kind |-> "date", v |-> 1]},
          x \in ListTaskAssignees :
            CreateTask(s, AdminUser, id, Absent, d, x)
    \/ \E s \in Slots, a \in ListTaskAssignees, id \in ListTaskIds :
            StartComplete(s, a, id)
    \/ \E s \in Slots : syncTaskBacklog(s)
    \/ \E s \in Slots, a \in TaskListers, st \in StatusFilters,
          u \in UserIdFilters, d \in DateFilters, dd \in DueDateFilters,
          c \in DateFilters :
            StartListTasks(s, a, st, u, d, dd, c)

TaskListNext ==
    \/ TaskTick
    \/ \E s \in Slots : Return(s)
    \/ Quiet /\ TaskListBegin
    \/ \E s \in Slots : CompleteUpdate(s)
    \/ \E s \in Slots : ListTasksQuery(s)

TaskListSpec == Init /\ [][TaskListNext]_vars

(* POST /api/leads/import.  The valid rows of the file are processed in    *)
(* order: a row is skipped when the store holds a lead with its email,     *)
(* else with its profile URL, else with its name and company; otherwise    *)
(* one lead is created from it.                                            *)
MaxImport == 2      \* valid rows of one file
ImportIdSeq == <<"I1", "I2", "I3">>
ImportActors == {"a1", "g1", "o1", NoSession}
Emails == {Undefined, "e1", "e2"}
ProfileUrls == {Undefined, "p1"}
Names == {"n1"}
Companies == {Undefined, "c1"}

(* a valid row of the parsed file: the name is never empty *)
Candidates ==
    [name : Names, email : Emails, company : Companies, profileUrl : ProfileUrls]

Files == UNION {[1..n -> Candidates] : n \in 0..MaxImport}

ImportedLead(leadData, t) ==
    [status |-> "new", assignedToId |-> Null, createdAt |-> t,
     textedAt |-> NoTime, firstFollowupAt |-> NoTime,
     secondFollowupAt |-> NoTime, repliedAt |-> NoTime,
     name |-> leadData.name, email |-> leadData.email,
     company |-> leadData.company, profileUrl |-> leadData.profileUrl]

existingByEmail_Never(leadData) == FALSE

existingByEmail(leadData) ==
    \E l \in DOMAIN leads : leads[l].email = leadData.email

existingByProfile(leadData) ==
    \E l \in DOMAIN leads : leads[l].profileUrl = leadData.profileUrl

existingByNameCompany(leadData) ==
    \E l \in DOMAIN leads :
        leads[l].name = leadData.name /\ leads[l].company = leadData.company

(* the reason a row is skipped for, or "none" when it is to be created *)
SkipReason(leadData) ==
    IF leadData.email # Undefined /\ existingByEmail(leadData)
    THEN "Duplicate email"
    ELSE IF leadData.profileUrl # Undefined /\ existingByProfile(leadData)
    THEN "Duplicate profile URL"
    ELSE IF /\ leadData.name # Undefined /\ leadData.company # Undefined
            /\ existingByNameCompany(leadData)
    THEN "Duplicate name and company"
    ELSE "none"

NextImportId ==
    ImportIdSeq[CHOOSE i \in 1..Len(ImportIdSeq) :
                    /\ ImportIdSeq[i] \notin DOMAIN leads
                    /\ \A j \in 1..(i - 1) : ImportIdSeq[j] \in DOMAIN leads]

StartImport(s, actor, valid) ==
    /\ Free(s)
    /\ IF actor = NoSession THEN Reject(s, "import", actor, Null, "Unauthenticated")
       ELSE IF RoleOf(actor) \notin {"admin", "lead_gen"}
       THEN Reject(s, "import", actor, Null, "Forbidden")
       ELSE IF Len(valid) = 0
       THEN Reject(s, "import", actor, Null, "InvalidInput")
       ELSE req' = [req EXCEPT ![s] =
                [Idle EXCEPT !.op = "import", !.pc = "row", !.actor = actor,
                             !.batch = valid]]
    /\ UNCHANGED <<leads, history, now, ticks, tasks>>

ImportRow(s) ==
    LET f == req[s]
        leadData == Head(f.batch)
        reason == SkipReason(leadData)
        rest == Tail(f.batch)
        id == NextImportId
        after == [f EXCEPT
                    !.batch = rest,
                    !.pc = IF rest = <<>> THEN "done" ELSE "row",
                    !.res = IF rest = <<>> THEN "ok" ELSE "none"]
    IN
    /\ f.op = "import" /\ f.pc = "row"
    /\ IF reason # "none"
       THEN /\ leads' = leads
            /\ req' = [req EXCEPT ![s] =
                    [after EXCEPT !.skippedLeads =
                        Append(f.skippedLeads,
                               [leadData |-> leadData, reason |-> reason])]]
       ELSE /\ leads' = leads @@ (id :> ImportedLead(leadData, now))
            /\ req' = [req EXCEPT ![s] =
                    [after EXCEPT !.createdLeads = Append(f.createdLeads, id)]]
    /\ history' = IF reason # "none" THEN history ELSE history @@ (id :> <<>>)
    /\ UNCHANGED <<now, ticks, tasks>>

(* Imports, one request at a time, into a store that earlier imports have  *)
(* filled.                                                                 *)
ImportNext ==
    \/ \E s \in Slots : Return(s)
    \/ /\ Quiet
       /\ Cardinality(DOMAIN leads) + MaxImport <= Len(ImportIdSeq)
       /\ \E s \in Slots, a \in ImportActors, valid \in Files :
            StartImport(s, a, valid)
    \/ \E s \in Slots : ImportRow(s)

ImportSpec == Init /\ [][ImportNext]_vars

(* Listings by status over two leads, one request at a time: an admin      *)
(* creates the leads and sets their status, anyone lists.                  *)
RoundTripStatuses == {"texted", "second_followup"}
RoundTripParams == {"texted", "all"}

RoundTripBegin ==
    \/ \E s \in Slots, l \in SweepLeads, x \in {Undefined, "o1"} :
            CreateLead(s, AdminUser, l, x)
    \/ \E s \in Slots, l \in SweepLeads, st \in RoundTripStatuses :
            Room(l, MaxHistSweep) /\ StartChangeStatus(s, AdminUser, l, st)
    \/ \E s \in Slots, a \in Users, st \in RoundTripParams :
            ListLeads(s, a, [status |-> st, filter |-> Null, system |-> Null,
                             search |-> Null])
    \/ \E s \in Slots, a \in Users, st \in RoundTripParams :
            /\ \A l \in LeadsToTransition(now - FOLLOWUP_2_TO_JUNK_MS) :
                    Room(l, MaxHistSweep)
            /\ StartListStatus(s, a, st, Null)

RoundTripNext ==
    \/ Tick
    \/ \E s \in Slots : Return(s)
    \/ Quiet /\ RoundTripBegin
    \/ \E s \in Slots : ChangeStatusHistory(s)
    \/ \E s \in Slots : ChangeStatusUpdate(s)
    \/ \E s \in Slots : SweepHistory(s)
    \/ \E s \in Slots : SweepUpdate(s)
    \/ \E s \in Slots : ListStatusQuery(s)

RoundTripSpec == Init /\ [][RoundTripNext]_vars

(* Sweeps, run by the cron route and by the listing by status, overlapping *)
(* with each other and with an admin's status changes on one lead.         *)
RaceBegin ==
    \/ \E s \in Slots, l \in LeadIds : CreateLead(s, AdminUser, l, Undefined)
    \/ \E s \in Slots, l \in LeadIds, st \in StatusInputs :
            Room(l, MaxHistSweep) /\ StartChangeStatus(s, AdminUser, l, st)
    \/ \E s \in Slots :
            /\ \A l \in LeadsToTransition(now - FOLLOWUP_2_TO_JUNK_MS) :
                    Room(l, MaxHistSweep)
            /\ StartSweep(s)
    \/ \E s \in Slots :
            /\ \A l \in LeadsToTransition(now - FOLLOWUP_2_TO_JUNK_MS) :
                    Room(l, MaxHistSweep)
            /\ StartListStatus(s, AdminUser, "all", Null)

RaceNext ==
    \/ Tick
    \/ \E s \in Slots : Return(s)
    \/ RaceBegin
    \/ \E s \in Slots : ChangeStatusHistory(s)
    \/ \E s \in Slots : ChangeStatusUpdate(s)
    \/ \E s \in Slots : SweepHistory(s)
    \/ \E s \in Slots : SweepUpdate(s)
    \/ \E s \in Slots : ListStatusQuery(s)

RaceSpec == Init /\ [][RaceNext]_vars

(* GET /api/leads/[id]: one read, then the role check on the row read.     *)
GetLead(s, actor, l) ==
    /\ Free(s)
    /\ IF actor = NoSession THEN Reject(s, "getLead", actor, l, "Unauthenticated")
       ELSE IF ~Exists(l) THEN Reject(s, "getLead", actor, l, "NotFound")
       ELSE LET lead == leads[l] IN
            IF RoleOf(actor) = "lead_gen" /\ lead.assignedToId # Null
            THEN req' = [req EXCEPT ![s] =
                    [Done("getLead", actor, l, "Forbidden") EXCEPT !.lead = lead]]
            ELSE IF /\ RoleOf(actor) = "outreach" /\ lead.assignedToId # Null
                    /\ lead.assignedToId # actor
            THEN req' = [req EXCEPT ![s] =
                    [Done("getLead", actor, l, "Forbidden") EXCEPT !.lead = lead]]
            ELSE req' = [req EXCEPT ![s] =
                    [Done("getLead", actor, l, "ok") EXCEPT !.lead = lead]]
    /\ UNCHANGED <<leads, history, now, ticks, tasks>>

(* Fetches by id between the lead commands, one request at a time. *)
FetchNext ==
    \/ Tick
    \/ \E s \in Slots : Return(s)
    \/ Quiet /\ Begin(MaxHistSeq, ListWriters, StatusInputs, {Undefined, "o1"})
    \/ Quiet /\ \E s \in Slots, a \in Actors, l \in LeadIds : GetLead(s, a, l)
    \/ Step

FetchSpec == Init /\ [][FetchNext]_vars

----------------------------------------------------------------------------
(* Properties *)

Last(q) == q[Len(q)]

InFlight(s) == req[s].pc \in {"hist", "upd", "query"}

(* No lead operation is in flight: every handler has run to its response. *)
AtRest == \A s \in Slots : ~InFlight(s)

(* Request s answers in this step with result r. *)
Answers(s, r) == req[s].pc # "done" /\ req'[s].pc = "done" /\ req'[s].res = r

(* C1: of two overlapping claims of one unclaimed lead by different actors *)
(* exactly one succeeds: a claim succeeds only on a lead that, when its    *)
(* write is applied, is unassigned or already the claimer's, so the winner *)
(* is never overwritten by the loser.                                      *)
C1_ClaimExclusive ==
    [][\A s \in Slots :
          (req[s].op = "claim" /\ Answers(s, "ok"))
              => leads[req[s].leadId].assignedToId \in {Null, req[s].actor}]_vars

(* C2: at rest, the newest history row of a lead carries the lead's status. *)
C2_LatestRowIsStatus ==
    AtRest =>
        \A l \in DOMAIN leads :
            history[l] # <<>> => Last(history[l]).newStatus = leads[l].status

(* C4: a status timestamp, once set, is never changed. *)
C4_TimestampWrittenOnce ==
    [][\A l \in DOMAIN leads :
          /\ leads[l].textedAt # NoTime => leads'[l].textedAt = leads[l].textedAt
          /\ leads[l].firstFollowupAt # NoTime
                => leads'[l].firstFollowupAt = leads[l].firstFollowupAt
          /\ leads[l].secondFollowupAt # NoTime
                => leads'[l].secondFollowupAt = leads[l].secondFollowupAt
          /\ leads[l].repliedAt # NoTime
                => leads'[l].repliedAt = leads[l].repliedAt]_vars

(* C5: a request that fails at a store step leaves no history row behind   *)
(* whose lead update is missing: when a request has just failed, the       *)
(* newest history row of every lead still carries the lead's status.       *)
C5_FailureLeavesNoOrphanRow ==
    (\E s \in Slots : req[s].pc = "done" /\ req[s].res = "Error") =>
        \A l \in DOMAIN leads :
            history[l] = <<>> \/ Last(history[l]).newStatus = leads[l].status

(* C3: every status change of a lead comes with exactly one history row,   *)
(* old status -> new status, and an edit that keeps the status writes none: *)
(* a lead's status changes only right after its newest row, which names    *)
(* the status before and the status after; rows are appended one at a      *)
(* time, by a request about to update that lead, never by an edit that     *)
(* sends the stored status; and at rest the rows of a lead chain, each     *)
(* starting from the status the one before it ended in.                    *)
Chain(h) ==
    \A i \in 1..Len(h) :
        h[i].oldStatus = (IF i = 1 THEN "new" ELSE h[i - 1].newStatus)

C3_OneRowPerStatusChange ==
    [][\A l \in DOMAIN leads :
          /\ leads'[l].status # leads[l].status =>
                /\ history'[l] = history[l]
                /\ history[l] # <<>>
                /\ Last(history[l]).oldStatus = leads[l].status
                /\ Last(history[l]).newStatus = leads'[l].status
          /\ history'[l] # history[l] =>
                /\ Len(history'[l]) = Len(history[l]) + 1
                /\ SubSeq(history'[l], 1, Len(history[l])) = history[l]
                /\ \E s \in Slots :
                      /\ req[s].pc = "hist" /\ req[s].leadId = l
                      /\ req'[s].pc = "upd"
                      /\ req[s].op = "edit" => req[s].newStatus # leads[l].status
          /\ AtRest' => Chain(history'[l])]_vars

(* C8: change-status and edit are accepted only from admin, from the       *)
(* outreach user the lead is assigned to, or from lead_gen on an           *)
(* unassigned lead; any other actor is answered Forbidden; and a rejected  *)
(* command writes nothing.                                                  *)
Permitted(actor, lead) ==
    \/ RoleOf(actor) = "admin"
    \/ RoleOf(actor) = "outreach" /\ lead.assignedToId = actor
    \/ RoleOf(actor) = "lead_gen" /\ lead.assignedToId = Null

C10_Unclaim ==
    [][\A s \in Slots :
          LET f == req[s]
              g == req'[s]
              l == g.leadId
          IN  /\ ( /\ f.pc = "idle" /\ g.op = "unclaim" /\ g.actor \in Users
                   /\ Exists(l) ) =>
                    /\ g.pc = "hist" <=>
                          /\ leads[l].assignedToId # Null
                          /\ \/ RoleOf(g.actor) = "admin"
                             \/ /\ RoleOf(g.actor) = "outreach"
                                /\ leads[l].assignedToId = g.actor
                    /\ ( /\ RoleOf(g.actor) = "outreach"
                         /\ leads[l].assignedToId \notin {Null, g.actor} )
                          => g.pc = "done" /\ g.res = "Forbidden"
                    /\ leads' = leads /\ history' = history
              /\ (f.op = "unclaim" /\ f.pc = "hist" /\ g.pc = "upd") =>
                    /\ history'[l] = Append(history[l],
                            [userId |-> f.actor,
                             oldStatus |-> leads[l].status,
                             newStatus |-> leads[l].status,
                             reason |-> "Lead unclaimed", createdAt |-> now])
                    /\ leads' = leads
              /\ (f.op = "unclaim" /\ f.pc = "upd" /\ g # f) =>
                    /\ g.pc = "done" /\ g.res = "ok"
                    /\ leads' = [leads EXCEPT ![f.leadId].assignedToId = Null]
                    /\ leads[f.leadId].assignedToId # Null
                    /\ history' = history]_vars

C10_Witness ==
    \E l \in DOMAIN leads, s \in Slots :
        /\ req[s].op = "unclaim" /\ req[s].pc = "done" /\ req[s].res = "ok"
        /\ RoleOf(req[s].actor) = "admin"
        /\ Len(history[l]) = 2
        /\ history[l][1].reason = "Lead claimed"
        /\ RoleOf(history[l][1].userId) = "outreach"
        /\ history[l][2].reason = "Lead unclaimed"
        /\ leads[l].assignedToId = Null

(* C6: every lead a listing returns to an outreach user is unassigned or   *)
(* assigned to that user, whatever filters the client sent.                *)
C6_OutreachScope ==
    \A s \in Slots :
        (req[s].pc = "done" /\ req[s].op \in ListOps
            /\ RoleOf(req[s].actor) = "outreach") =>
            \A r \in req[s].found : r.lead.assignedToId \in {Null, req[s].actor}

C6_Witness ==
    \E s \in Slots :
        /\ req[s].pc = "done" /\ req[s].op = "list" /\ req[s].res = "ok"
        /\ RoleOf(req[s].actor) = "outreach"
        /\ \E r \in req[s].found : r.lead.assignedToId = req[s].actor

(* C7: every lead a listing returns to a lead_gen user is unassigned and   *)
(* has status new, whatever filters the client sent.                       *)
C7_LeadGenScope ==
    \A s \in Slots :
        (req[s].pc = "done" /\ req[s].op \in ListOps
            /\ RoleOf(req[s].actor) = "lead_gen") =>
            \A r \in req[s].found :
                r.lead.assignedToId = Null /\ r.lead.status = "new"

C7_Witness ==
    \E s \in Slots :
        /\ req[s].pc = "done" /\ req[s].op = "listDate" /\ req[s].res = "ok"
        /\ RoleOf(req[s].actor) = "lead_gen"
        /\ req[s].found # {}

(* C11: an unclaim of an unassigned lead, by an outreach user or an admin, *)
(* is answered "already unclaimed" and writes nothing.                     *)
C11_UnclaimUnassigned ==
    [][\A s \in Slots :
          LET g == req'[s]
              l == g.leadId
          IN  ( /\ req[s].pc = "idle" /\ g.op = "unclaim"
                /\ RoleOf(g.actor) \in {"outreach", "admin"}
                /\ Exists(l)
                /\ leads[l].assignedToId = Null ) =>
                    /\ g.pc = "done" /\ g.res = "AlreadyUnclaimed"
                    /\ leads' = leads /\ history' = history]_vars

(* C12: no create and no edit by a lead_gen or outreach user sets or       *)
(* changes assignedToId, whatever the payload carries: the lead a lead_gen *)
(* user creates is unassigned, and the update of an edit by a non-admin    *)
(* leaves assignedToId as stored.                                          *)
C12_AssignmentStripped ==
    [][\A s \in Slots :
          LET f == req[s]
              g == req'[s]
          IN  /\ ( /\ f.pc = "idle" /\ g.op = "create" /\ g.res = "ok"
                   /\ RoleOf(g.actor) # "admin" ) =>
                    /\ g.leadId \notin DOMAIN leads
                    /\ leads'[g.leadId].assignedToId = Null
              /\ ( /\ f.op = "edit" /\ f.pc = "upd" /\ g # f
                   /\ RoleOf(f.actor) # "admin" ) =>
                    leads'[f.leadId].assignedToId = leads[f.leadId].assignedToId
              /\ ( /\ f.pc = "idle" /\ g.op \in {"create", "edit"}
                   /\ g.pc = "done" /\ g.res # "ok" ) => leads' = leads]_vars

C12_Witness ==
    \E s \in Slots, l \in DOMAIN leads :
        /\ req[s].op = "edit" /\ req[s].pc = "done" /\ req[s].res = "ok"
        /\ req[s].leadId = l
        /\ RoleOf(req[s].actor) = "outreach"
        /\ req[s].sent = Null
        /\ leads[l].assignedToId = req[s].actor

(* C13: a sweep that runs to completion turns to junk exactly the leads    *)
(* with status second_followup whose secondFollowupAt lies four days or    *)
(* more before the sweep time: it selects exactly those; for each it       *)
(* appends the row second_followup -> junk by an admin with reason         *)
(* "Automated: Second Follow-up > 4 days" and then sets that lead's status *)
(* to junk, changing nothing else; when it answers, none of them is left.  *)
Stale(lead, t) ==
    /\ lead.status = "second_followup"
    /\ lead.secondFollowupAt # NoTime
    /\ lead.secondFollowupAt + 4 * 24 * 60 * 60 * 1000 <= t

C15_SweepContinuesAfterFailure ==
    [][\A s \in Slots :
          ( /\ req[s].op = "sweep" /\ req[s].pc \in {"hist", "upd"}
            /\ req'[s].pc = "done" ) => Len(req[s].batch) <= 1]_vars

(* C16: the count a lead sweep returns is the number of leads whose status *)
(* that run changed to junk: a run that answers with count n has changed   *)
(* n leads, so none when it answers at once and none left uncounted when   *)
(* it answers after an update or a failure.                                *)
C16_SweepCount ==
    [][\A s \in Slots :
          LET f == req[s]
              g == req'[s]
          IN  /\ (f.pc = "idle" /\ g.op = "sweep" /\ g.pc = "done") =>
                    g.transitioned = 0 /\ leads' = leads
              /\ (f.op = "sweep" /\ f.pc \in {"hist", "upd"} /\ g.pc = "done") =>
                    g.transitioned =
                        f.transitioned - Len(f.batch)
                            + (IF leads' # leads THEN 1 ELSE 0)]_vars

(* C17: a sweep may be interrupted anywhere in its batch, also between a   *)
(* row's history write and its lead update; once a later sweep has run to  *)
(* completion, no lead is left with status second_followup and a           *)
(* secondFollowupAt at or before that sweep's four-days-ago mark.          *)
C17_CompletedSweepLeavesNoneStale ==
    \A s \in Slots :
        (req[s].op = "sweep" /\ req[s].pc = "done" /\ req[s].res = "ok") =>
            \A l \in DOMAIN leads :
                ~ ( /\ leads[l].status = "second_followup"
                    /\ leads[l].secondFollowupAt # NoTime
                    /\ leads[l].secondFollowupAt <= req[s].fourDaysAgo )

C17_Witness ==
    \E s \in Slots, l \in DOMAIN leads :
        /\ req[s].op = "sweep" /\ req[s].pc = "done" /\ req[s].res = "ok"
        /\ req[s].transitioned = 1
        /\ leads[l].status = "junk"
        /\ Len(history[l]) = 3
        /\ history[l][2].newStatus = "junk"
        /\ history[l][3].newStatus = "junk"

(* C18: a task created with createdAt = D and no dueAt is stored with      *)
(* dueAt = D + 24 hours, for any D; one created with neither is stored     *)
(* with dueAt = creation time + 24 hours.                                  *)
C18_DefaultDue ==
    [][\A s \in Slots :
          LET g == req'[s]
              id == g.taskId
          IN  ( /\ req[s].pc = "idle" /\ g.op = "createTask" /\ g.res = "ok"
                /\ g.dueAtStr = Absent ) =>
                    /\ g.createdAtStr.kind = "iso" =>
                          /\ tasks'[id].createdAt = g.createdAtStr.v
                          /\ tasks'[id].dueAt = g.createdAtStr.v + 24 * 60 * 60 * 1000
                    /\ g.createdAtStr = Absent =>
                          /\ tasks'[id].createdAt = now
                          /\ tasks'[id].dueAt = now + 24 * 60 * 60 * 1000]_vars

(* C19: every stored task has dueAt >= createdAt, after any sequence and   *)
(* any interleaving of createTask and editTask requests.                   *)
C19_DueNotBeforeCreated ==
    \A id \in DOMAIN tasks : tasks[id].dueAt >= tasks[id].createdAt

(* C20: a task's status is done exactly when its completedAt is set,       *)
(* under any interleaving of create, complete, edit and backlog sweep.     *)
C20_DoneIffCompleted ==
    \A id \in DOMAIN tasks :
        tasks[id].status = "done" <=> tasks[id].completedAt # NoTime

(* an overdue task that is done with completedAt set, with a backlog sweep *)
(* that moved a task answered and a completion answered alongside it       *)
C20_Witness ==
    \E id \in DOMAIN tasks, s \in Slots, r \in Slots :
        /\ tasks[id].status = "done" /\ tasks[id].completedAt # NoTime
        /\ tasks[id].dueAt < now
        /\ req[s].op = "taskSweep" /\ req[s].transitioned = 1
        /\ req[r].op = "complete" /\ req[r].res = "ok" /\ req[r].taskId = id

(* C14: both sweeps are idempotent.  A lead sweep (a task backlog sweep)   *)
(* called directly after a call of the same sweep that answered, at the    *)
(* same clock reading and with no operation in between, selects nothing:   *)
(* it answers at once with count 0 and leaves every lead, every history    *)
(* row and every task as the first call left them.                         *)
C14_SweepsIdempotent ==
    [][\A s \in Slots, r \in Slots :
          ( /\ s # r
            /\ req[s].pc = "idle"
            /\ req[r].pc = "done" /\ req[r].res = "ok" ) =>
                /\ ( /\ req[r].op = "sweep" /\ req'[s].op = "sweep"
                     /\ req'[s].fourDaysAgo = req[r].fourDaysAgo ) =>
                        /\ req'[s].pc = "done" /\ req'[s].res = "ok"
                        /\ req'[s].transitioned = 0
                        /\ leads' = leads /\ history' = history
                        /\ tasks' = tasks
                /\ ( /\ req[r].op = "taskSweep" /\ req'[s].op = "taskSweep"
                     /\ req'[s].at = req[r].at ) =>
                        /\ req'[s].pc = "done" /\ req'[s].res = "ok"
                        /\ req'[s].transitioned = 0
                        /\ leads' = leads /\ history' = history
                        /\ tasks' = tasks]_vars

(* the answers of two lead sweeps at the same clock reading are out: the   *)
(* first turned a lead to junk, the second reported 0; a task already      *)
(* stands in backlog from a backlog sweep                                  *)
C14_Witness ==
    \E s \in Slots, r \in Slots :
        /\ req[r].op = "sweep" /\ req[r].pc = "done" /\ req[r].res = "ok"
        /\ req[r].transitioned = 1
        /\ req[s].op = "sweep" /\ req[s].pc = "done" /\ req[s].res = "ok"
        /\ req[s].transitioned = 0
        /\ req[s].fourDaysAgo = req[r].fourDaysAgo
        /\ \E l \in DOMAIN leads :
                /\ leads[l].status = "junk"
                /\ Len(history[l]) > 0
                /\ history[l][Len(history[l])].newStatus = "junk"
        /\ \E id \in DOMAIN tasks : tasks[id].status = "backlog"

(* C21: the only task status transitions are undone -> done and            *)
(* undone -> backlog; once a task is done or backlog no operation changes  *)
(* its status again.                                                       *)
C21_TaskTransitions ==
    [][\A id \in DOMAIN tasks \cap DOMAIN tasks' :
          \/ tasks'[id].status = tasks[id].status
          \/ /\ tasks[id].status = "undone"
             /\ tasks'[id].status \in {"done", "backlog"}]_vars

(* C22: a backlog sweep, run by the cron route or at the start of a task   *)
(* listing, sets status backlog on exactly the tasks that are undone with  *)
(* dueAt strictly before the sweep time; a done task is never moved and no *)
(* other field of any task changes.                                        *)
C22_BacklogSweepExact ==
    [][\A s \in Slots :
          ( /\ req[s].pc = "idle"
            /\ \/ req'[s].op = "taskSweep"
               \/ req'[s].op = "listTasks" /\ req'[s].pc = "taskQuery" ) =>
                /\ req'[s].at = now
                /\ DOMAIN tasks' = DOMAIN tasks
                /\ \A id \in DOMAIN tasks :
                      tasks'[id] =
                        IF tasks[id].status = "undone" /\ tasks[id].dueAt < now
                        THEN [tasks[id] EXCEPT !.status = "backlog"]
                        ELSE tasks[id]]_vars

(* the answer of a cron sweep that moved one task is out: that task is in  *)
(* backlog and the other task, done and as overdue, was left as it was     *)
C22_Witness ==
    \E s \in Slots, id \in DOMAIN tasks, k \in DOMAIN tasks :
        /\ req[s].op = "taskSweep" /\ req[s].pc = "done"
        /\ req[s].transitioned = 1
        /\ tasks[id].status = "backlog" /\ tasks[id].dueAt < req[s].at
        /\ tasks[k].status = "done" /\ tasks[k].dueAt < req[s].at

(* C23: a task's completedAt is written at most once: once set, no         *)
(* completion request changes it or the status, also when two completion   *)
(* requests for the same task overlap.                                     *)
C23_CompletedAtWrittenOnce ==
    [][\A id \in DOMAIN tasks \cap DOMAIN tasks' :
          tasks[id].completedAt # NoTime =>
              /\ tasks'[id].completedAt = tasks[id].completedAt
              /\ tasks'[id].status = tasks[id].status]_vars

TaskCommands == {"createTask", "editTask", "deleteTask", "complete"}

(* the answer a task command gets from an authenticated actor, as the      *)
(* handler decides it on the rows it reads: forbidden is the answer to an  *)
(* actor without permission, named by the parameter                        *)
TaskAnswers(s, forbidden) ==
    LET g == req'[s]
        a == g.actor
        id == g.taskId
        admin == RoleOf(a) = "admin"
    IN  ( /\ req[s].pc = "idle" /\ g.op \in TaskCommands
          /\ a # NoSession ) =>
            /\ (g.op # "complete" /\ ~admin) => g.res \in forbidden
            /\ ( /\ g.op = "complete" /\ id \in DOMAIN tasks /\ ~admin
                 /\ tasks[id].assignedToId # a ) => g.res = "Forbidden"
            /\ (g.op = "complete" /\ id \notin DOMAIN tasks) => g.res = "NotFound"
            /\ (g.op = "deleteTask" /\ admin /\ id \notin DOMAIN tasks) =>
                    g.res = "NotFound"
            /\ (g.pc = "done" /\ g.res # "ok") => tasks' = tasks
            /\ (g.pc = "taskUpd" \/ tasks' # tasks) =>
                    \/ admin
                    \/ /\ g.op = "complete" /\ id \in DOMAIN tasks
                       /\ tasks[id].assignedToId = a

(* C24 as stated: create, edit and delete are accepted only from an admin  *)
(* and completion only from the assignee or an admin; every other actor is *)
(* answered Forbidden; deleting or completing a task that does not exist   *)
(* is answered NotFound; a rejected command leaves every task unchanged.   *)
C24_TaskAuthorization ==
    [][\A s \in Slots : TaskAnswers(s, {"Forbidden"})]_vars

(* C24 amended: as stated, except that an edit whose body the schema       *)
(* refuses is answered InvalidInput to any authenticated actor, before the *)
(* role check.                                                             *)
C24_TaskAuthorizationAmended ==
    [][\A s \in Slots :
          /\ TaskAnswers(s, {"Forbidden", "InvalidInput"})
          /\ ( /\ req[s].pc = "idle" /\ req'[s].op \in TaskCommands
               /\ req'[s].actor # NoSession
               /\ RoleOf(req'[s].actor) # "admin"
               /\ req'[s].res = "InvalidInput" ) => req'[s].op = "editTask"]_vars

(* an outreach user who is not the assignee was refused the completion of  *)
(* a task that is still undone, and an outreach user's edit with a refused *)
(* body was answered InvalidInput                                          *)
C24_Witness ==
    \E s \in Slots, r \in Slots :
        /\ req[s].op = "complete" /\ req[s].res = "Forbidden"
        /\ RoleOf(req[s].actor) = "outreach"
        /\ req[s].taskId \in DOMAIN tasks
        /\ tasks[req[s].taskId].assignedToId # req[s].actor
        /\ tasks[req[s].taskId].status = "undone"
        /\ req[r].op = "editTask" /\ req[r].res = "InvalidInput"
        /\ RoleOf(req[r].actor) = "outreach"

(* C25: every task the task listing returns to a non-admin actor has       *)
(* assignedToId equal to the actor's id, under every combination of the    *)
(* status, userId, date, dueDateTo and createdAtTo filters; a userId       *)
(* filter naming another user does not widen the result.                   *)
C25_TaskListingScope ==
    \A s \in Slots :
        ( /\ req[s].op = "listTasks" /\ req[s].pc = "done"
          /\ req[s].res = "ok"
          /\ RoleOf(req[s].actor) # "admin" ) =>
            \A row \in req[s].found : row.task.assignedToId = req[s].actor

(* an outreach user listed with userId naming another user and got a task  *)
(* of their own, while a task of that other user is stored                 *)
C25_Witness ==
    \E s \in Slots :
        /\ req[s].op = "listTasks" /\ req[s].pc = "done" /\ req[s].res = "ok"
        /\ req[s].actor = "o1" /\ req[s].sent = "o2"
        /\ req[s].found # {}
        /\ \E id \in DOMAIN tasks : tasks[id].assignedToId = "o2"

Subsequence(q, p) ==
    \E f \in [1..Len(q) -> 1..Len(p)] :
        /\ \A i \in 1..Len(q) : p[f[i]] = q[i]
        /\ \A i, j \in 1..Len(q) : i < j => f[i] < f[j]

(* C27: for one actor and one store state, what the lead listing returns   *)
(* for status = 'texted' is a subsequence of what it returns for           *)
(* status = 'all': every lead of the first, in the same relative order.    *)
(* Stated for every result either query can return on the current store,   *)
(* for the general listing and for the listing by status.                  *)
C27_ListingRoundTrip ==
    \A a \in Users :
        /\ \A q \in createdAtDesc({k \in DOMAIN leads :
                    LeadsWhere(a, [status |-> "texted", filter |-> Null,
                                   system |-> Null, search |-> Null], k)}),
              p \in createdAtDesc({k \in DOMAIN leads :
                    LeadsWhere(a, [status |-> "all", filter |-> Null,
                                   system |-> Null, search |-> Null], k)}) :
                Subsequence(q, p)
        /\ \A q \in createdAtDesc({k \in DOMAIN leads :
                    StatusWhere(a, "texted", Null, k)}),
              p \in createdAtDesc({k \in DOMAIN leads :
                    StatusWhere(a, "all", Null, k)}) :
                Subsequence(q, p)

(* C28: under any interleaving of sweep runs with each other and with      *)
(* manual status changes, a sweep appends its automated row and writes     *)
(* status junk only to a lead whose stored status is second_followup at    *)
(* the moment of that write.                                               *)
C28_SweepWritesOnlySecondFollowup ==
    [][\A s \in Slots :
          ( /\ req[s].op \in {"sweep", "listStatus"}
            /\ req[s].pc \in {"hist", "upd"}
            /\ (leads' # leads \/ history' # history) ) =>
                leads[req[s].leadId].status = "second_followup"]_vars

(* C29: no edit or status change issued by a lead_gen actor is applied to  *)
(* a lead that is assigned at the moment the write is applied, also when a *)
(* claim or an admin's assignment comes between the permission check and   *)
(* the write.                                                              *)
C29_LeadGenWritesUnassignedOnly ==
    [][\A s \in Slots :
          ( /\ req[s].op \in {"status", "edit"}
            /\ req[s].pc \in {"hist", "upd"}
            /\ RoleOf(req[s].actor) = "lead_gen"
            /\ (leads' # leads \/ history' # history) ) =>
                leads[req[s].leadId].assignedToId = Null]_vars

(* C30: the fetch of one lead enforces the scope of the listings: it       *)
(* returns a lead to a lead_gen actor only if the lead is unassigned and   *)
(* has status new, and to an outreach actor only if the lead is unassigned *)
(* or assigned to that actor; in every other case it answers Forbidden.    *)
C30_FetchScope ==
    \A s \in Slots :
        (req[s].op = "getLead" /\ req[s].res \in {"ok", "Forbidden"}) =>
            LET lead == req[s].lead
                a == req[s].actor
                inScope ==
                    CASE RoleOf(a) = "lead_gen" ->
                            lead.assignedToId = Null /\ lead.status = "new"
                      [] RoleOf(a) = "outreach" ->
                            lead.assignedToId = Null \/ lead.assignedToId = a
                      [] OTHER -> TRUE
            IN  req[s].res = "ok" <=> inScope

====
